---- MODULE Spec2Model ----
(***************************************************************************)
(* A model of apps/api-extractor/src/utils/PrettyPrinter.ts.               *)
(*                                                                         *)
(* Three independent operations are modelled, each under a specification   *)
(* of its own:                                                             *)
(*   SpecFlags    PrettyPrinter._getFlagsString (behind                    *)
(*                getSymbolFlagsString / getTypeFlagsString)               *)
(*   SpecSummary  PrettyPrinter.getDeclarationSummary, driving Span        *)
(*   SpecDump     PrettyPrinter.dumpTree (FairSpecDump adds fairness)      *)
(*                                                                         *)
(* A JavaScript string is a sequence of one-character strings.  A number   *)
(* that takes part in a bitwise operation is its signed 32-bit value.      *)
(***************************************************************************)
EXTENDS Integers, Sequences, FiniteSets, TLC

VARIABLES
  \* _getFlagsString
  flags,    \* the parameter flags, as the int32 the operator & sees
  bit,      \* the loop counter
  flag,     \* the loop's single-bit probe
  result,   \* the string under construction
  calls,    \* the calls of func so far: <<[arg, ret], ...>>
  fret,     \* the value returned
  fpc,      \* "idle", "loop" or "done"
  \* getDeclarationSummary
  srcText,  \* the text of the source file
  node,     \* the parameter node: [kind, start, end, children]
  rootSpan, \* the Span tree built from node
  pending,  \* the spans forEach has still to hand to the callback (paths)
  skipped,  \* the spans whose modification.skipAll() was called (paths)
  sret,     \* the value returned
  spc,      \* "idle", "start", "visit" or "done"
  \* dumpTree
  dnode,    \* the parameter node: [kind, children]
  dindent,  \* the parameter indent
  stack,    \* the calls of dumpTree in progress, the innermost last
  out,      \* the lines written by console.log, each with the node it is for
  threw,    \* the calls of getText and getChildren that threw
  dpc       \* "idle", "run" or "done"

flagVars == <<flags, bit, flag, result, calls, fret, fpc>>

sumVars == <<srcText, node, rootSpan, pending, skipped, sret, spc>>

dumpVars == <<dnode, dindent, stack, out, threw, dpc>>

vars == <<flagVars, sumVars, dumpVars>>

----------------------------------------------------------------------------
\* Strings

Sep == <<",", " ">>

Unknown == <<"?", "?", "?">>

\* The characters \\s matches and trim() removes.
WhiteSpace == {" ", "\n", "\r", "\t"}

\* The concatenation of a sequence of strings.
RECURSIVE Concat(_)
Concat(ss) == IF ss = << >> THEN << >> ELSE Head(ss) \o Concat(Tail(ss))

\* s.replace(/\\s+/g, ' ') on the characters lo..hi of s: the first character of
\* a run of white space becomes a space, the others of the run go.
RECURSIVE CollapseRange(_, _, _)
CollapseRange(s, lo, hi) ==
  IF lo > hi THEN << >>
  ELSE IF lo = hi
       THEN IF s[lo] \notin WhiteSpace THEN <<s[lo]>>
            ELSE IF lo > 1 /\ s[lo - 1] \in WhiteSpace THEN << >>
            ELSE <<" ">>
       ELSE LET mid == (lo + hi) \div 2
            IN  CollapseRange(s, lo, mid) \o CollapseRange(s, mid + 1, hi)

Collapse(s) == CollapseRange(s, 1, Len(s))

\* s.trim()
RECURSIVE SkipLeft(_, _)
SkipLeft(s, i) ==
  IF i <= Len(s) /\ s[i] \in WhiteSpace THEN SkipLeft(s, i + 1) ELSE i

RECURSIVE SkipRight(_, _)
SkipRight(s, j) ==
  IF j >= 1 /\ s[j] \in WhiteSpace THEN SkipRight(s, j - 1) ELSE j

Trim(s) == SubSeq(s, SkipLeft(s, 1), SkipRight(s, Len(s)))

----------------------------------------------------------------------------
\* 32-bit integers.  Every value stays within -2^31 .. 2^31 - 1.

NumBits == 32

MinInt32 == (-(2^30)) - (2^30)

\* The bits 0..30 of the two's complement word of x.
Low31(x) == IF x < 0 THEN x - MinInt32 ELSE x

\* Bit i of the two's complement word of x.
Bit32(x, i) == IF i = 31 THEN x < 0 ELSE (Low31(x) \div (2^i)) % 2 = 1

RECURSIVE AndLow(_, _, _)
AndLow(a, b, i) ==
  IF i < 0 THEN 0
  ELSE (IF Bit32(a, i) /\ Bit32(b, i) THEN 2^i ELSE 0) + AndLow(a, b, i - 1)

\* a & b
And32(a, b) ==
  IF Bit32(a, 31) /\ Bit32(b, 31)
  THEN MinInt32 + AndLow(a, b, 30)
  ELSE AndLow(a, b, 30)

\* x << 1
Shl32(x) ==
  LET low30 == Low31(x) % (2^30)
  IN  IF Bit32(x, 30) THEN MinInt32 + 2 * low30 ELSE 2 * low30

----------------------------------------------------------------------------
\* _getFlagsString

\* Bit positions the input flags may have set: the lowest NumLowBits and the
\* two highest.
NumLowBits == 2

TestBits == (0 .. NumLowBits - 1) \cup {30, 31}

RECURSIVE WordOf(_)
WordOf(S) ==
  IF S = {} THEN 0
  ELSE LET i == CHOOSE j \in S : \A k \in S : k <= j
       IN  IF i = 31 THEN MinInt32 + WordOf(S \ {i}) ELSE 2^i + WordOf(S \ {i})

FlagsInputs == {WordOf(S) : S \in SUBSET TestBits}

\* The strings func may return.
Names == {<< >>, <<"A">>, <<"B">>}

\* if ((flags as any as number) & flag)
FlagIsSetPositive(fl, f) == And32(fl, f) > 0

FlagIsSet(fl, f) == And32(fl, f) # 0

\* if (result !== '') { result += ', '; }  result += func(flag)
AppendNameNoSep(res, name) == res \o name

AppendName(res, name) == (IF res # << >> THEN res \o Sep ELSE res) \o name

\* flag <<= 1
NextFlag(f) == Shl32(f)

\* return result === '' ? '???' : result
FlagsResultRaw(res) == res

FlagsResult(res) == IF res = << >> THEN Unknown ELSE res

\* func is a function: a value it was called with before gets the same name.
FuncMayReturn(arg, name) ==
  \A k \in 1 .. Len(calls) : calls[k].arg = arg => calls[k].ret = name

FlagsIdle ==
  /\ flags = 0
  /\ bit = 0
  /\ flag = 1
  /\ result = << >>
  /\ calls = << >>
  /\ fret = << >>
  /\ fpc = "idle"

SummaryIdle ==
  /\ srcText = << >>
  /\ node = [kind |-> "SourceFile", start |-> 0, end |-> 0, children |-> << >>]
  /\ rootSpan = << >>
  /\ pending = << >>
  /\ skipped = {}
  /\ sret = << >>
  /\ spc = "idle"

DumpIdle ==
  /\ dnode = [kind |-> "Identifier", children |-> << >>]
  /\ dindent = << >>
  /\ stack = << >>
  /\ out = << >>
  /\ threw = {}
  /\ dpc = "idle"

FlagsInit ==
  /\ SummaryIdle
  /\ DumpIdle
  /\ flags \in FlagsInputs
  /\ bit = 0
  /\ flag = 1
  /\ result = << >>
  /\ calls = << >>
  /\ fret = << >>
  /\ fpc = "loop"

\* One iteration of the loop whose bit is set: func is called.
FlagCall ==
  /\ fpc = "loop"
  /\ bit < NumBits
  /\ FlagIsSet(flags, flag)
  /\ \E name \in Names :
       /\ FuncMayReturn(flag, name)
       /\ result' = AppendName(result, name)
       /\ calls' = Append(calls, [arg |-> flag, ret |-> name])
  /\ flag' = NextFlag(flag)
  /\ bit' = bit + 1
  /\ UNCHANGED <<flags, fret, fpc>>
  /\ UNCHANGED <<sumVars, dumpVars>>

\* One iteration of the loop whose bit is clear.
FlagSkip ==
  /\ fpc = "loop"
  /\ bit < NumBits
  /\ ~FlagIsSet(flags, flag)
  /\ flag' = NextFlag(flag)
  /\ bit' = bit + 1
  /\ UNCHANGED <<flags, result, calls, fret, fpc>>
  /\ UNCHANGED <<sumVars, dumpVars>>

FlagReturn ==
  /\ fpc = "loop"
  /\ bit >= NumBits
  /\ fret' = FlagsResult(result)
  /\ fpc' = "done"
  /\ UNCHANGED <<flags, bit, flag, result, calls>>
  /\ UNCHANGED <<sumVars, dumpVars>>

FlagsNext == FlagCall \/ FlagSkip \/ FlagReturn

SpecFlags == FlagsInit /\ [][FlagsNext]_vars

----------------------------------------------------------------------------
\* Properties of _getFlagsString

FlagsDone == fpc = "done"

\* The positions of the bits set in the word of x, in ascending order from i.
RECURSIVE SetBitsFrom(_, _)
SetBitsFrom(x, i) ==
  IF i > 31 THEN << >>
  ELSE (IF Bit32(x, i) THEN <<i>> ELSE << >>) \o SetBitsFrom(x, i + 1)

SetBitSeq(x) == SetBitsFrom(x, 0)

\* The strings of a sequence joined with ", ".
RECURSIVE JoinNames(_)
JoinNames(ns) ==
  IF ns = << >> THEN << >>
  ELSE IF Len(ns) = 1 THEN ns[1]
  ELSE ns[1] \o Sep \o JoinNames(Tail(ns))

CallArgs == [k \in 1 .. Len(calls) |-> calls[k].arg]

CallRets == [k \in 1 .. Len(calls) |-> calls[k].ret]

\* The k-th call of func is about the k-th lowest set bit of flags: its
\* argument is the 32-bit word with that bit alone.
CallsFollowSetBits ==
  LET bits == SetBitSeq(flags)
  IN  /\ Len(calls) = Len(bits)
      /\ \A k \in 1 .. Len(bits) : SetBitSeq(calls[k].arg) = <<bits[k]>>

AllNamesNonEmpty == \A k \in 1 .. Len(calls) : calls[k].ret # << >>

\* C1 as stated: for every flags and every func, the result is the names of
\* the set bits of flags, one per set bit, in ascending bit order, joined
\* with ", ".
C1_AsStated ==
  (FlagsDone /\ flags # 0) =>
    (CallsFollowSetBits /\ fret = JoinNames(CallRets))

\* C1 as amended: the same, for a func that returns a non-empty name for
\* every set bit of flags.
C1_JoinedNames ==
  (FlagsDone /\ flags # 0 /\ AllNamesNonEmpty) =>
    (CallsFollowSetBits /\ fret = JoinNames(CallRets))

C1_Witness ==
  /\ FlagsDone
  /\ AllNamesNonEmpty
  /\ Len(calls) >= 3
  /\ Bit32(flags, 31)
  /\ calls[1].ret # calls[2].ret

\* C2: with flags = 0 the result is "???" and func is never called.
C2_ZeroIsUnknown ==
  (FlagsDone /\ flags = 0) => (fret = Unknown /\ calls = << >>)

C2_Witness == FlagsDone /\ flags = 0 /\ bit = NumBits

\* v = 2^i, written without forming 2^31.
RECURSIVE IsTwoToThe(_, _)
IsTwoToThe(v, i) ==
  IF i = 0 THEN v = 1
  ELSE v > 0 /\ v % 2 = 0 /\ IsTwoToThe(v \div 2, i - 1)

\* C3 as stated: func is called once per set bit position i, in ascending
\* order of i, with the power of two 2^i, position 31 included, and never
\* for a clear bit.
C3_AsStated ==
  FlagsDone =>
    LET bits == SetBitSeq(flags)
    IN  /\ Len(calls) = Len(bits)
        /\ \A k \in 1 .. Len(bits) : IsTwoToThe(calls[k].arg, bits[k])

\* The value of 1 shifted left i times in 32 bits.
ProbeValue(i) == IF i = 31 THEN (-(2^30)) - (2^30) ELSE 2^i

\* C3 as amended: func is called once per set bit position i, in ascending
\* order of i, never for a clear bit, with 2^i for i in 0..30 and with
\* -2^31 for i = 31.
C3_CallPerSetBit ==
  FlagsDone =>
    LET bits == SetBitSeq(flags)
    IN  CallArgs = [k \in 1 .. Len(bits) |-> ProbeValue(bits[k])]

C3_Witness ==
  /\ FlagsDone
  /\ Bit32(flags, 31)
  /\ Bit32(flags, 0)
  /\ ~Bit32(flags, 1)
  /\ Len(calls) >= 2

----------------------------------------------------------------------------
\* Syntax trees and source text

\* The length of the source text; a tree has at most as many nodes.
TextLen == 3

MaxNodes == TextLen

Kinds == {"JSDocComment", "DeclareKeyword", "ClassDeclaration"}

Letters == <<"a", "b", "c", "d", "e", "f", "g", "h">>

\* Position i of a source text holds a letter of its own or white space: a
\* space at an odd position, a line break at an even one.
Blank(i) == IF i % 2 = 1 THEN " " ELSE "\n"

SourceTexts ==
  {[i \in 1 .. TextLen |-> IF i \in B THEN Blank(i) ELSE Letters[i]] :
     B \in SUBSET (1 .. TextLen)}

RECURSIVE TreeSize(_)
RECURSIVE ForestSize(_)
TreeSize(t) == 1 + ForestSize(t.children)

ForestSize(f) == IF f = << >> THEN 0 ELSE TreeSize(Head(f)) + ForestSize(Tail(f))

\* The trees of at most n nodes over [a, b), and the sequences of such trees
\* within [s, e): the children of a node lie within it, in order, disjoint.
RECURSIVE TreesOver(_, _, _)
RECURSIVE ForestsWithin(_, _, _)
TreesOver(a, b, n) ==
  {[kind |-> k, start |-> a, end |-> b, children |-> f] :
     k \in Kinds, f \in ForestsWithin(a, b, n - 1)}

ForestsWithin(s, e, n) ==
  IF n = 0 THEN {<< >>}
  ELSE {<< >>} \cup
       UNION {UNION {UNION {{<<t>> \o f : f \in ForestsWithin(b, e, n - TreeSize(t))} :
                              t \in TreesOver(a, b, n)} :
                       b \in a + 1 .. e} :
                a \in s .. e}

NodeInputs == UNION {TreesOver(a, TextLen, MaxNodes) : a \in 0 .. 1}

\* The node a path of child indexes leads to.
RECURSIVE NodeAt(_, _)
NodeAt(n, path) ==
  IF path = << >> THEN n ELSE NodeAt(n.children[Head(path)], Tail(path))

\* text.substring(from, to)
Slice(text, from, to) == SubSeq(text, from + 1, to)


----------------------------------------------------------------------------
\* Span

\* new Span(node): one span per node, over the node's range, the children in
\* the order of node.getChildren().
RECURSIVE NewSpan(_)
NewSpan(n) ==
  [kind |-> n.kind, startIndex |-> n.start, endIndex |-> n.end,
   children |-> [i \in 1 .. Len(n.children) |-> NewSpan(n.children[i])]]

\* The span a path of child indexes leads to.
RECURSIVE SpanAt(_, _)
SpanAt(span, path) ==
  IF path = << >> THEN span ELSE SpanAt(span.children[Head(path)], Tail(path))

\* Span.forEach: the spans in pre-order, as paths from the root.
RECURSIVE PreOrder(_, _)
PreOrder(span, path) ==
  <<path>> \o
  Concat([i \in 1 .. Len(span.children) |->
            PreOrder(span.children[i], Append(path, i))])

\* The text a span contributes to getModifiedText.
RECURSIVE ComposeSpan(_, _, _, _)
ComposeSpan(text, span, path, skip) ==
  LET kids == span.children
      gapEnd(i) == IF i < Len(kids) THEN kids[i + 1].startIndex ELSE span.endIndex
  IN  IF path \in skip THEN << >>
      ELSE IF kids = << >> THEN Slice(text, span.startIndex, span.endIndex)
      ELSE Slice(text, span.startIndex, kids[1].startIndex) \o
           Concat([i \in 1 .. Len(kids) |->
                     ComposeSpan(text, kids[i], Append(path, i), skip) \o
                     Slice(text, kids[i].endIndex, gapEnd(i))])

\* Span.getModifiedText
GetModifiedText(text, span, skip) ==
  Trim(Collapse(ComposeSpan(text, span, << >>, skip)))

----------------------------------------------------------------------------
\* getDeclarationSummary

VisitorSkipsClassToo(kind) ==
  kind \in {"JSDocComment", "DeclareKeyword", "ClassDeclaration"}

VisitorSkipsCommentOnly(kind) == kind = "JSDocComment"

VisitorSkipsDeclareOnly(kind) == kind = "DeclareKeyword"

\* case ts.SyntaxKind.JSDocComment: case ts.SyntaxKind.DeclareKeyword:
VisitorSkips(kind) == kind \in {"JSDocComment", "DeclareKeyword"}

SummaryInit ==
  /\ FlagsIdle
  /\ DumpIdle
  /\ srcText \in SourceTexts
  /\ node \in NodeInputs
  /\ rootSpan = << >>
  /\ pending = << >>
  /\ skipped = {}
  /\ sret = << >>
  /\ spc = "start"

\* const rootSpan = new Span(node); rootSpan.forEach(...) begins.
SummaryBuild ==
  /\ spc = "start"
  /\ rootSpan' = NewSpan(node)
  /\ pending' = PreOrder(rootSpan', << >>)
  /\ spc' = "visit"
  /\ UNCHANGED <<srcText, node, skipped, sret>>
  /\ UNCHANGED <<flagVars, dumpVars>>

\* The callback, on a span whose kind it strips.
SummaryVisitSkip ==
  /\ spc = "visit"
  /\ pending # << >>
  /\ VisitorSkips(SpanAt(rootSpan, Head(pending)).kind)
  /\ skipped' = skipped \cup {Head(pending)}
  /\ pending' = Tail(pending)
  /\ UNCHANGED <<srcText, node, rootSpan, sret, spc>>
  /\ UNCHANGED <<flagVars, dumpVars>>

\* The callback, on any other span.
SummaryVisitKeep ==
  /\ spc = "visit"
  /\ pending # << >>
  /\ ~VisitorSkips(SpanAt(rootSpan, Head(pending)).kind)
  /\ pending' = Tail(pending)
  /\ UNCHANGED <<srcText, node, rootSpan, skipped, sret, spc>>
  /\ UNCHANGED <<flagVars, dumpVars>>

\* return rootSpan.getModifiedText()
SummaryReturn ==
  /\ spc = "visit"
  /\ pending = << >>
  /\ sret' = GetModifiedText(srcText, rootSpan, skipped)
  /\ spc' = "done"
  /\ UNCHANGED <<srcText, node, rootSpan, pending, skipped>>
  /\ UNCHANGED <<flagVars, dumpVars>>

SummaryNext ==
  SummaryBuild \/ SummaryVisitSkip \/ SummaryVisitKeep \/ SummaryReturn

SpecSummary == SummaryInit /\ [][SummaryNext]_vars

----------------------------------------------------------------------------
\* Properties of getDeclarationSummary

SummaryDone == spc = "done"

\* The characters lo..hi of s that are not white space, each one that begins
\* a word other than the first word of s after a single space.
RECURSIVE WordsRange(_, _, _)
WordsRange(s, lo, hi) ==
  IF lo > hi THEN << >>
  ELSE IF lo = hi
       THEN IF s[lo] \in WhiteSpace THEN << >>
            ELSE IF /\ lo > 1
                    /\ s[lo - 1] \in WhiteSpace
                    /\ \E j \in 1 .. lo - 1 : s[j] \notin WhiteSpace
                 THEN <<" ", s[lo]>>
                 ELSE <<s[lo]>>
       ELSE LET mid == (lo + hi) \div 2
            IN  WordsRange(s, lo, mid) \o WordsRange(s, mid + 1, hi)

\* s with every run of white space collapsed to one space, and trimmed.
OneLine(s) == WordsRange(s, 1, Len(s))

IsStripKind(kind) == kind = "JSDocComment" \/ kind = "DeclareKeyword"

\* The nodes of a tree, as paths from its root.
RECURSIVE NodePaths(_, _)
NodePaths(n, path) ==
  {path} \cup
  UNION {NodePaths(n.children[i], Append(path, i)) : i \in 1 .. Len(n.children)}

AllPaths == NodePaths(node, << >>)

StripPaths == {p \in AllPaths : IsStripKind(NodeAt(node, p).kind)}

\* The offsets of the source text inside a doc comment or a declare keyword.
StrippedOffsets ==
  {o \in 0 .. Len(srcText) - 1 :
     \E p \in StripPaths : NodeAt(node, p).start <= o /\ o < NodeAt(node, p).end}

\* The characters of the text at the offsets from..to-1 outside drop, in order.
RECURSIVE KeptText(_, _, _)
KeptText(from, to, drop) ==
  IF from >= to THEN << >>
  ELSE (IF from \in drop THEN << >> ELSE <<srcText[from + 1]>>) \o
       KeptText(from + 1, to, drop)

\* C4: with no span modified (no doc comment and no declare keyword in the
\* tree) the summary is the node's source text on one line: nothing lost,
\* nothing twice.
C4_UnmodifiedIsOneLine ==
  (SummaryDone /\ StripPaths = {}) =>
    /\ skipped = {}
    /\ sret = OneLine(Slice(srcText, node.start, node.end))

C4_Witness ==
  /\ SummaryDone
  /\ StripPaths = {}
  /\ Cardinality(AllPaths) = 3
  /\ Len(node.children) = 2
  /\ node.children[1].end < node.children[2].start
  /\ Len(sret) = node.end - node.start

LettersOf(n) ==
  {srcText[o + 1] : o \in n.start .. n.end - 1} \ WhiteSpace

\* C6: a doc comment or declare keyword contributes nothing, nor does any
\* node below it, whatever that node is; when the root is one, the summary
\* is the empty string.
C6_SkipAllCutsSubtree ==
  SummaryDone =>
    /\ IsStripKind(node.kind) => sret = << >>
    /\ \A p \in StripPaths :
         \A k \in 1 .. Len(sret) : sret[k] \notin LettersOf(NodeAt(node, p))

C6_Witness ==
  /\ SummaryDone
  /\ sret # << >>
  /\ \E p \in skipped :
       /\ Append(p, 1) \in AllPaths \ skipped
       /\ LettersOf(NodeAt(node, Append(p, 1))) # {}

----------------------------------------------------------------------------
\* dumpTree

TruncateLimit == 100

TruncateKeep == 97

\* The most nodes a dumped tree has.
MaxDumpNodes == 4

\* The dumped trees: a node without children is an Identifier, any other a
\* Block.
RECURSIVE DumpTrees(_)
RECURSIVE DumpForests(_)
DumpTrees(n) ==
  {[kind |-> IF f = << >> THEN "Identifier" ELSE "Block", children |-> f] :
     f \in DumpForests(n - 1)}

DumpForests(n) ==
  IF n = 0 THEN {<< >>}
  ELSE {<< >>} \cup
       UNION {{<<t>> \o f : f \in DumpForests(n - TreeSize(t))} : t \in DumpTrees(n)}

DumpInputs == DumpTrees(MaxDumpNodes)

\* The parameter indent: a string the caller chose over the default.
DumpIndents == {<<">">>}

\* ts.SyntaxKind[node.kind]
KindName(kind) ==
  IF kind = "Identifier"
  THEN <<"I", "d", "e", "n", "t", "i", "f", "i", "e", "r">>
  ELSE <<"B", "l", "o", "c", "k">>

Digits == <<"0", "1", "2", "3", "4", "5", "6", "7", "8", "9">>

\* A text that is n characters long once on one line: white space of every
\* sort around and within it.
Messy(n) ==
  <<" ", "\n", "a", "\r", "\n", "\t">> \o
  [i \in 1 .. n - 2 |-> Digits[(i % 10) + 1]] \o
  <<" ", " ">>

\* The texts getText() may return.
DumpTexts == <<Messy(3), Messy(TruncateLimit), Messy(TruncateLimit + 1)>>

\* s.replace(/[\r\n]/g, ' ')
ReplaceLineBreaks(s) ==
  [i \in 1 .. Len(s) |-> IF s[i] \in {"\r", "\n"} THEN " " ELSE s[i]]

Ellipsis == <<".", ".", ".">>

TrimmedTextCutAtLimit(raw) ==
  LET t == Trim(Collapse(ReplaceLineBreaks(raw)))
  IN  IF Len(t) >= TruncateLimit
      THEN SubSeq(t, 1, TruncateKeep) \o Ellipsis
      ELSE t

\* The try block of dumpTree, when getText() returns raw.
TrimmedText(raw) ==
  LET t == Trim(Collapse(ReplaceLineBreaks(raw)))
  IN  IF Len(t) > TruncateLimit
      THEN SubSeq(t, 1, TruncateKeep) \o Ellipsis
      ELSE t

\* trimmedText, for each text getText() may return.
TrimmedTexts == [t \in 1 .. Len(DumpTexts) |-> TrimmedText(DumpTexts[t])]

CaughtTextEmpty == << >>

\* trimmedText = '(error getting text)'
CaughtText ==
  <<"(", "e", "r", "r", "o", "r", " ", "g", "e", "t", "t", "i", "n", "g", " ",
    "t", "e", "x", "t", ")">>

\* `${indent}${kindName}: [${trimmedText}]`
FormatLine(indent, kindName, trimmedText) ==
  indent \o kindName \o <<":", " ", "[">> \o trimmedText \o <<"]">>

ChildIndentOneSpace(indent) == indent \o <<" ">>

\* indent + '  '
ChildIndent(indent) == indent \o <<" ", " ">>

Frame(path, indent) == [path |-> path, indent |-> indent, pc |-> "text", next |-> 1]

Top == stack[Len(stack)]

Pop(st) == SubSeq(st, 1, Len(st) - 1)

SetTop(st, f) == [st EXCEPT ![Len(st)] = f]

Unwind(st) == << >>

\* catch (e) { } around the loop over getChildren(): the call returns.
AfterChildrenThrow(st) == Pop(st)

\* The state of the dump once the call stack is st.
Finish(st) == IF st = << >> THEN "done" ELSE "run"

DumpInit ==
  /\ FlagsIdle
  /\ SummaryIdle
  /\ dnode \in DumpInputs
  /\ dindent \in DumpIndents
  /\ stack = <<Frame(<< >>, dindent)>>
  /\ out = << >>
  /\ threw = {}
  /\ dpc = "run"

\* getText() returns: the node's line is written.
DumpText ==
  /\ dpc = "run"
  /\ Top.pc = "text"
  /\ \E t \in 1 .. Len(DumpTexts) :
       out' = Append(out, [path |-> Top.path, text |-> t, indent |-> Top.indent,
                           line |-> FormatLine(Top.indent,
                                               KindName(NodeAt(dnode, Top.path).kind),
                                               TrimmedTexts[t])])
  /\ stack' = SetTop(stack, [Top EXCEPT !.pc = "children"])
  /\ UNCHANGED <<dnode, dindent, threw, dpc>>
  /\ UNCHANGED <<flagVars, sumVars>>

\* getText() throws: the node's line is written with the text of the catch.
DumpTextThrows ==
  /\ dpc = "run"
  /\ Top.pc = "text"
  /\ out' = Append(out, [path |-> Top.path, text |-> 0, indent |-> Top.indent,
                         line |-> FormatLine(Top.indent,
                                             KindName(NodeAt(dnode, Top.path).kind),
                                             CaughtText)])
  /\ threw' = threw \cup {<<"getText", Top.path>>}
  /\ stack' = SetTop(stack, [Top EXCEPT !.pc = "children"])
  /\ UNCHANGED <<dnode, dindent, dpc>>
  /\ UNCHANGED <<flagVars, sumVars>>

\* getChildren() returns: the loop over the children begins.
DumpChildren ==
  /\ dpc = "run"
  /\ Top.pc = "children"
  /\ stack' = SetTop(stack, [Top EXCEPT !.pc = "loop", !.next = 1])
  /\ UNCHANGED <<dnode, dindent, out, threw, dpc>>
  /\ UNCHANGED <<flagVars, sumVars>>

\* getChildren() throws: the catch swallows it and the call returns.
DumpChildrenThrows ==
  /\ dpc = "run"
  /\ Top.pc = "children"
  /\ threw' = threw \cup {<<"getChildren", Top.path>>}
  /\ stack' = AfterChildrenThrow(stack)
  /\ dpc' = Finish(stack')
  /\ UNCHANGED <<dnode, dindent, out>>
  /\ UNCHANGED <<flagVars, sumVars>>

\* PrettyPrinter.dumpTree(childNode, indent + '  ') for the next child.
DumpRecurse ==
  /\ dpc = "run"
  /\ Top.pc = "loop"
  /\ Top.next <= Len(NodeAt(dnode, Top.path).children)
  /\ stack' = Append(SetTop(stack, [Top EXCEPT !.next = Top.next + 1]),
                     Frame(Append(Top.path, Top.next), ChildIndent(Top.indent)))
  /\ UNCHANGED <<dnode, dindent, out, threw, dpc>>
  /\ UNCHANGED <<flagVars, sumVars>>

\* The loop is over: the call returns.
DumpReturn ==
  /\ dpc = "run"
  /\ Top.pc = "loop"
  /\ Top.next > Len(NodeAt(dnode, Top.path).children)
  /\ stack' = Pop(stack)
  /\ dpc' = Finish(stack')
  /\ UNCHANGED <<dnode, dindent, out, threw>>
  /\ UNCHANGED <<flagVars, sumVars>>

DumpNext ==
  \/ DumpText
  \/ DumpTextThrows
  \/ DumpChildren
  \/ DumpChildrenThrows
  \/ DumpRecurse
  \/ DumpReturn

SpecDump == DumpInit /\ [][DumpNext]_vars

\* The calls are synchronous: a dump in progress takes its next step.
FairSpecDump == SpecDump /\ WF_vars(DumpNext)

----------------------------------------------------------------------------
\* Properties of dumpTree

DumpDone == dpc = "done"

DumpPaths == NodePaths(dnode, << >>)

\* The lines written for the node at path p.
LinesFor(p) == {k \in 1 .. Len(out) : out[k].path = p}

IsStrictPrefix(a, q) == Len(a) < Len(q) /\ SubSeq(q, 1, Len(a)) = a

TextThrew(p) == <<"getText", p>> \in threw

ChildrenThrew(p) == <<"getChildren", p>> \in threw

\* The line of a node: the indent of its call, the name of its kind and the
\* text shown between brackets.
LineWith(k, shown) ==
  out[k].indent \o KindName(NodeAt(dnode, out[k].path).kind) \o
  <<":", " ", "[">> \o shown \o <<"]">>

\* The texts getText() may return, each on one line.
OneLineTexts == [t \in 1 .. Len(DumpTexts) |-> OneLine(DumpTexts[t])]

\* C7: when getText() succeeds, the bracketed text is the node text on one
\* line; longer than 100 characters, it is its first 97 characters and "...";
\* otherwise it is unchanged; it is never longer than 100 characters.
C7_TextOnOneLineCut ==
  \A k \in 1 .. Len(out) :
    out[k].text # 0 =>
      LET one == OneLineTexts[out[k].text]
          shown == IF Len(one) > 100
                   THEN SubSeq(one, 1, 97) \o <<".", ".", ".">>
                   ELSE one
      IN  /\ out[k].line = LineWith(k, shown)
          /\ Len(out[k].line) <= Len(LineWith(k, << >>)) + 100

C7_Witness ==
  /\ DumpDone
  /\ \E k \in 1 .. Len(out) :
       /\ out[k].text # 0
       /\ Len(OneLineTexts[out[k].text]) = 100
  /\ \E k \in 1 .. Len(out) :
       /\ out[k].text # 0
       /\ Len(OneLineTexts[out[k].text]) = 101
  /\ \E k \in 1 .. Len(out) :
       /\ out[k].text # 0
       /\ Len(OneLineTexts[out[k].text]) < 97

ErrorGettingText ==
  <<"(", "e", "r", "r", "o", "r", " ", "g", "e", "t", "t", "i", "n", "g", " ",
    "t", "e", "x", "t", ")">>

\* C8: when getText() throws for a node, one line is written for it, with
\* "(error getting text)" between the brackets; the failure stops nothing:
\* the children of the node are dumped (if getChildren() returns them), and
\* so are its later siblings.
C8_TextFailureRecovered ==
  DumpDone =>
    \A p \in DumpPaths :
      TextThrew(p) =>
        /\ Cardinality(LinesFor(p)) = 1
        /\ \A k \in LinesFor(p) : out[k].line = LineWith(k, ErrorGettingText)
        /\ ~ChildrenThrew(p) =>
             \A i \in 1 .. Len(NodeAt(dnode, p).children) :
               LinesFor(Append(p, i)) # {}
        /\ \A q \in DumpPaths :
             (/\ p # << >>
              /\ Len(q) = Len(p)
              /\ SubSeq(q, 1, Len(q) - 1) = SubSeq(p, 1, Len(p) - 1)
              /\ q[Len(q)] > p[Len(p)]) => LinesFor(q) # {}

C8_Witness ==
  /\ DumpDone
  /\ \E p \in DumpPaths :
       /\ TextThrew(p)
       /\ p # << >>
       /\ LinesFor(Append(p, 1)) # {}
       /\ [p EXCEPT ![Len(p)] = p[Len(p)] + 1] \in DumpPaths

\* C9: when getChildren() throws for a node, the node has its line, no node
\* below it has one, and the rest of the dump is as without the failure:
\* every node that is not below a node whose getChildren() threw has its
\* line, once.
C9_ChildrenFailureCutsSubtree ==
  DumpDone =>
    \A q \in DumpPaths :
      Cardinality(LinesFor(q)) =
        IF \E a \in DumpPaths : ChildrenThrew(a) /\ IsStrictPrefix(a, q)
        THEN 0
        ELSE 1

C9_Witness ==
  /\ DumpDone
  /\ \E p \in DumpPaths :
       /\ ChildrenThrew(p)
       /\ p # << >>
       /\ Append(p, 1) \in DumpPaths
       /\ LinesFor(Append(p, 1)) = {}
       /\ LinesFor([p EXCEPT ![Len(p)] = p[Len(p)] + 1]) # {}

\* The nodes of a tree in pre-order.
RECURSIVE DumpOrder(_, _)
DumpOrder(n, path) ==
  IF n.children = << >> THEN <<path>>
  ELSE <<path>> \o
       Concat([i \in 1 .. Len(n.children) |->
                 DumpOrder(n.children[i], Append(path, i))])

Spaces(n) == [i \in 1 .. n |-> " "]

\* One line per node, in pre-order, the line of a node at depth d indented
\* by the parameter indent and 2*d spaces.
DumpIsPreOrder ==
  /\ [k \in 1 .. Len(out) |-> out[k].path] = DumpOrder(dnode, << >>)
  /\ \A k \in 1 .. Len(out) :
       /\ out[k].text # 0
       /\ out[k].line =
            dindent \o Spaces(2 * Len(out[k].path)) \o
            KindName(NodeAt(dnode, out[k].path).kind) \o <<":", " ", "[">> \o
            TrimmedTexts[out[k].text] \o <<"]">>

\* C10: the dump of a finite tree ends, and when no getText() and no
\* getChildren() threw it has written one line per node, in pre-order, each
\* indented by indent and two spaces per level.
C10_TerminatesInPreOrder == <>(DumpDone /\ (threw = {} => DumpIsPreOrder))

C10_Witness ==
  /\ DumpDone
  /\ threw = {}
  /\ dindent # << >>
  /\ Len(out) = 4
  /\ Len(dnode.children) = 2
  /\ \E k \in 1 .. Len(out) : Len(out[k].path) = 2

====
